---- MODULE Spec2Model ----
(***************************************************************************)
(* obs_decam: DecamCpIsrTask / DecamCpIsrConfig                            *)
(* (python/lsst/obs/decam/decamCpIsr.py).                                  *)
(*                                                                         *)
(* The raw exposure is a masked image: an image plane and a mask plane     *)
(* over a bounding box.  Pixels are addressed in LOCAL coordinates         *)
(* (0..w-1, 0..h-1); the bounding box carries the PARENT origin.  A mask   *)
(* pixel is the set of mask planes whose bit is set, so `|=` is set union. *)
(* An image pixel is the raw count together with the list of corrections   *)
(* the ip_isr routines applied to it, each recorded as an uninterpreted    *)
(* term over its operands.                                                 *)
(***************************************************************************)
EXTENDS Integers, Sequences, FiniteSets, TLC

VARIABLES
    rawBBox,   \* bounding box (PARENT) of the raw exposure
    image,     \* image plane of the raw exposure, by LOCAL pixel
    mask,      \* mask plane of the raw exposure, by LOCAL pixel
    config,    \* the task's configuration
    calls,     \* the invocations of the ip_isr routines so far, in order
    pre,       \* image, mask and calls as they were when the last call began
    last,      \* the most recent operation and how it ended
    edge,      \* the most recent direct evaluation of _computeEdgeSize
    ncalls     \* number of correction calls made on this exposure

vars == <<rawBBox, image, mask, config, calls, pre, last, edge, ncalls>>

(* ---------------------------- bounds ---------------------------------- *)

\* largest width and height of an exposure
MaxDim == 3

\* number of correction calls made on one raw exposure
MaxCalls == 2

(* ---------------------------- inputs ---------------------------------- *)

Planes == {"BAD", "SAT", "EDGE"}

\* PARENT origins (xy0) an exposure may have
Origins == {<<0, 0>>, <<2, 5>>}

ScalingTypes == {"USER", "MEAN", "MEDIAN"}

UserScales == {1, 2}

Box(x0, y0, w, h) == [x0 |-> x0, y0 |-> y0, w |-> w, h |-> h]

\* the calibration exposures (bias or flat) a caller may pass
CalibExposures ==
    [bbox : {Box(o[1], o[2], w, h) : o \in Origins, w \in 0..MaxDim, h \in 0..MaxDim}]

\* LOCAL pixel indices of a box
Pixels(b) == (0..(b.w - 1)) \X (0..(b.h - 1))

\* image plane of a calibration exposure, LOCAL pixel p
CalibImageAt(c, p) == 1 + ((p[1] + 2 * p[2]) % 3)

\* mask plane of a calibration exposure, LOCAL pixel p: some pixels of the
\* product are clean, some carry mask bits of their own
CalibMaskAt(c, p) ==
    CASE (p[1] + p[2]) % 3 = 0 -> {}
      [] (p[1] + p[2]) % 3 = 1 -> {"EDGE"}
      [] OTHER                 -> {"BAD"}

\* the raw exposure as read: counts and the mask bits set by earlier stages
RawImageAt(p) == [raw |-> 100 + p[1] + 10 * p[2], ops |-> <<>>]

RawMaskAt(p) ==
    CASE (p[1] + 2 * p[2]) % 4 = 0 -> {}
      [] (p[1] + 2 * p[2]) % 4 = 1 -> {"SAT"}
      [] (p[1] + 2 * p[2]) % 4 = 2 -> {"EDGE"}
      [] OTHER                     -> {"BAD", "SAT"}

(* ------------------------ lsst.afw geometry --------------------------- *)

\* Box2I.getDimensions
getDimensions(b) == <<b.w, b.h>>

\* Extent2I.__sub__
ExtentMinus(a, b) == <<a[1] - b[1], a[2] - b[2]>>

(* ------------------------- _computeEdgeSize --------------------------- *)

Returned(v) == [raised |-> "", msg |-> "", value |-> v]

Raised(exc, msg) == [raised |-> exc, msg |-> msg, value |-> -1]

\* variant: the difference is returned without being halved
_computeEdgeSize_NotHalved(rawB, calibB) ==
    LET d  == ExtentMinus(getDimensions(rawB), getDimensions(calibB))
        nx == d[1]
        ny == d[2]
    IN  IF nx # ny
        THEN Raised("AssertionError", "Exposure is trimmed differently in X and Y")
        ELSE IF nx % 2 # 0
        THEN Raised("AssertionError", "Exposure is trimmed unevenly in X")
        ELSE IF ~(nx >= 0)
        THEN Raised("AssertionError", "Calibration image is larger than raw data")
        ELSE Returned(nx)

\* variant: the X and Y differences are not compared
_computeEdgeSize_NoSquareCheck(rawB, calibB) ==
    LET d  == ExtentMinus(getDimensions(rawB), getDimensions(calibB))
        nx == d[1]
    IN  IF nx % 2 # 0
        THEN Raised("AssertionError", "Exposure is trimmed unevenly in X")
        ELSE IF ~(nx >= 0)
        THEN Raised("AssertionError", "Calibration image is larger than raw data")
        ELSE Returned(nx \div 2)

\* variant: a calibration image larger than the raw data is not refused
_computeEdgeSize_NoSizeCheck(rawB, calibB) ==
    LET d  == ExtentMinus(getDimensions(rawB), getDimensions(calibB))
        nx == d[1]
        ny == d[2]
    IN  IF nx # ny
        THEN Raised("AssertionError", "Exposure is trimmed differently in X and Y")
        ELSE IF nx % 2 # 0
        THEN Raised("AssertionError", "Exposure is trimmed unevenly in X")
        ELSE Returned(nx \div 2)

_computeEdgeSize(rawB, calibB) ==
    LET d  == ExtentMinus(getDimensions(rawB), getDimensions(calibB))
        nx == d[1]
        ny == d[2]
    IN  IF nx # ny
        THEN Raised("AssertionError", "Exposure is trimmed differently in X and Y")
        ELSE IF nx % 2 # 0
        THEN Raised("AssertionError", "Exposure is trimmed unevenly in X")
        ELSE IF ~(nx >= 0)
        THEN Raised("AssertionError", "Calibration image is larger than raw data")
        ELSE Returned(nx \div 2)

(* --------------------------- DecamCpIsrConfig ------------------------- *)

\* dataset type names of the LSST-generated calibration products
LsstProductNames == [biasDataProductName |-> "bias", flatDataProductName |-> "flat"]

\* a configuration before setDefaults: the inherited fields
InheritedConfigs ==
    [biasDataProductName : {LsstProductNames.biasDataProductName},
     flatDataProductName : {LsstProductNames.flatDataProductName},
     flatScalingType     : ScalingTypes,
     flatUserScale       : UserScales]

\* variant: the defaults name the LSST-generated products
setDefaults_LsstNames(self) ==
    [self EXCEPT !.biasDataProductName = "bias",
                 !.flatDataProductName = "flat"]

\* DecamCpIsrConfig.setDefaults
setDefaults(self) ==
    [self EXCEPT !.biasDataProductName = "cpBias",
                 !.flatDataProductName = "cpFlat"]

\* DecamCpIsrTask.ConfigClass
ConfigClass == "DecamCpIsrConfig"

\* constructing a configuration of class cls runs that class's setDefaults
NewConfig(cls, inherited) ==
    IF cls = "DecamCpIsrConfig" THEN setDefaults(inherited) ELSE inherited

(* ----------------------- sub-image of the raw exposure ---------------- *)

\* a negative slice index counts from the end (LOCAL origin)
SliceIndex(index, size) == IF index < 0 THEN size + index ELSE index

\* maskedImage[xa:xb, ya:yb, LOCAL]: bounding box (PARENT) of the view
SliceBBox(b, xa, xb, ya, yb) ==
    LET bx == SliceIndex(xa, b.w)
        ex == SliceIndex(xb, b.w)
        by == SliceIndex(ya, b.h)
        ey == SliceIndex(yb, b.h)
    IN  Box(b.x0 + bx, b.y0 + by, ex - bx, ey - by)

\* the view must lie inside the image it is cut from
Contains(outer, inner) ==
    /\ inner.w >= 0 /\ inner.h >= 0
    /\ inner.x0 >= outer.x0 /\ inner.x0 + inner.w <= outer.x0 + outer.w
    /\ inner.y0 >= outer.y0 /\ inner.y0 + inner.h <= outer.y0 + outer.h

\* variant: the slice is taken whatever nEdge is, so nEdge = 0 gives [0:-0]
InteriorBBox_AlwaysSliced(b, nEdge) ==
    SliceBBox(b, nEdge, -nEdge, nEdge, -nEdge)

\* variant: the whole trim is taken off the far edges, [0:-2*nEdge]
InteriorBBox_NotCentred(b, nEdge) ==
    IF nEdge > 0
    THEN SliceBBox(b, 0, -(2 * nEdge), 0, -(2 * nEdge))
    ELSE b

\* rawMaskedImage as selected by biasCorrection / flatCorrection
InteriorBBox(b, nEdge) ==
    IF nEdge > 0
    THEN SliceBBox(b, nEdge, -nEdge, nEdge, -nEdge)
    ELSE b

\* LOCAL pixels of the exposure that a view with bounding box v covers
ViewPixels(b, v) ==
    {p \in Pixels(b) : /\ v.x0 - b.x0 <= p[1] /\ p[1] < v.x0 - b.x0 + v.w
                       /\ v.y0 - b.y0 <= p[2] /\ p[2] < v.y0 - b.y0 + v.h}

\* the view's own LOCAL index of exposure pixel p
ViewLocal(b, v, p) == <<p[1] - (v.x0 - b.x0), p[2] - (v.y0 - b.y0)>>

(* ------------------- lsst.ip.isr correction routines ------------------ *)

\* both routines refuse operands whose LOCAL bounding boxes differ
SameLocalBBox(v, c) == getDimensions(v) = getDimensions(c.bbox)

BiasTerm(c, q) ==
    [routine |-> "biasCorrection", calib |-> CalibImageAt(c, q),
     scalingType |-> "", userScale |-> 0]

FlatTerm(c, q, scalingType, userScale) ==
    [routine |-> "flatCorrection", calib |-> CalibImageAt(c, q),
     scalingType |-> scalingType, userScale |-> userScale]

\* image plane after lsst.ip.isr.biasCorrection(view, calib)
biasCorrectionImage(img, b, v, c) ==
    [p \in Pixels(b) |->
        IF p \in ViewPixels(b, v)
        THEN [img[p] EXCEPT !.ops = Append(@, BiasTerm(c, ViewLocal(b, v, p)))]
        ELSE img[p]]

\* image plane after lsst.ip.isr.flatCorrection(view, calib, scalingType, userScale)
flatCorrectionImage(img, b, v, c, scalingType, userScale) ==
    [p \in Pixels(b) |->
        IF p \in ViewPixels(b, v)
        THEN [img[p] EXCEPT !.ops =
                 Append(@, FlatTerm(c, ViewLocal(b, v, p), scalingType, userScale))]
        ELSE img[p]]

\* mask plane after either routine: the calibration mask is OR-ed in
correctionMask(msk, b, v, c) ==
    [p \in Pixels(b) |->
        IF p \in ViewPixels(b, v)
        THEN msk[p] \cup CalibMaskAt(c, ViewLocal(b, v, p))
        ELSE msk[p]]

(* ------------------- SourceDetectionTask.setEdgeBits ------------------ *)

\* variant: the bit of another plane is returned
getPlaneBitMask_Bad(name) == {"BAD"}

\* getMask().getPlaneBitMask("EDGE")
getPlaneBitMask(name) == {name}

\* variant: the exposure's own bounding box is given as the good region
GoodBBox_WholeExposure(b, v) == b

\* the good region given to setEdgeBits: rawMaskedImage.getBBox()
GoodBBox(b, v) == v

\* variant: the user scale is left at the routine's default
FlatArgs_NoUserScale(cfg) ==
    [scalingType |-> cfg.flatScalingType, userScale |-> 1]

\* the scaling arguments flatCorrection passes on
FlatArgs(cfg) ==
    [scalingType |-> cfg.flatScalingType, userScale |-> cfg.flatUserScale]

\* the four strips of the mask outside goodBBox, in LOCAL coordinates
EdgeStrips(b, goodBBox) ==
    LET bx == goodBBox.x0 - b.x0
        ex == goodBBox.x0 + goodBBox.w - b.x0
        by == goodBBox.y0 - b.y0
        ey == goodBBox.y0 + goodBBox.h - b.y0
    IN  { Box(0, 0, b.w, by), Box(0, ey, b.w, b.h - ey),
          Box(0, 0, bx, b.h), Box(ex, 0, b.w - ex, b.h) }

InStrip(p, s) ==
    /\ s.x0 <= p[1] /\ p[1] < s.x0 + s.w
    /\ s.y0 <= p[2] /\ p[2] < s.y0 + s.h

setEdgeBits(msk, b, goodBBox, edgeBitmask) ==
    [p \in Pixels(b) |->
        IF \E s \in EdgeStrips(b, goodBBox) : InStrip(p, s)
        THEN msk[p] \cup edgeBitmask
        ELSE msk[p]]

(* ------------------------------ state --------------------------------- *)

\* an operation, the dimensions of the calibration exposure it was given,
\* the edge size it computed (-1 if none) and how it ended
Outcome(op, dims, nEdge, r) ==
    [op |-> op, calib |-> dims, nEdge |-> nEdge, raised |-> r.raised, msg |-> r.msg]

\* one invocation of an ip_isr routine: the view of the raw exposure and the
\* calibration masked image (identified by its dimensions) it was given
Invocation(routine, v, c, scalingType, userScale) ==
    [routine |-> routine, region |-> v, calib |-> getDimensions(c.bbox),
     scalingType |-> scalingType, userScale |-> userScale]

Snapshot == [image |-> image, mask |-> mask, calls |-> calls]

RawBBoxes == {Box(o[1], o[2], w, h) : o \in Origins, w \in 1..MaxDim, h \in 1..MaxDim}

Init ==
    /\ rawBBox \in RawBBoxes
    /\ image = [p \in Pixels(rawBBox) |-> RawImageAt(p)]
    /\ mask = [p \in Pixels(rawBBox) |-> RawMaskAt(p)]
    /\ config \in {NewConfig(ConfigClass, c) : c \in InheritedConfigs}
    /\ calls = <<>>
    /\ pre = [image |-> image, mask |-> mask, calls |-> calls]
    /\ last = Outcome("__init__", <<0, 0>>, -1, Returned(0))
    /\ edge = [called |-> FALSE, raw |-> rawBBox, calib |-> rawBBox,
               result |-> Returned(0)]
    /\ ncalls = 0

(* ----------------------------- operations ----------------------------- *)

\* the configuration is mutable until the pipeline starts processing
SetDefaults ==
    /\ ncalls = 0
    /\ config' = setDefaults(config)
    /\ last' = Outcome("setDefaults", <<0, 0>>, -1, Returned(0))
    /\ UNCHANGED <<rawBBox, image, mask, calls, pre, edge, ncalls>>

\* an override file points the task back at the LSST-generated products
OverrideProducts ==
    /\ ncalls = 0
    /\ config' = [config EXCEPT
                    !.biasDataProductName = LsstProductNames.biasDataProductName,
                    !.flatDataProductName = LsstProductNames.flatDataProductName]
    /\ last' = Outcome("override", <<0, 0>>, -1, Returned(0))
    /\ UNCHANGED <<rawBBox, image, mask, calls, pre, edge, ncalls>>

\* _computeEdgeSize(rawExposure, calibExposure) evaluated on its own
ComputeEdgeSize(c) ==
    /\ edge' = [called |-> TRUE, raw |-> rawBBox, calib |-> c.bbox,
                result |-> _computeEdgeSize(rawBBox, c.bbox)]
    /\ UNCHANGED <<rawBBox, image, mask, config, calls, pre, last, ncalls>>

\* DecamCpIsrTask.biasCorrection(exposure, biasExposure).  Nothing here
\* catches an exception: once a call has raised, processing of this exposure
\* is over.
BiasCorrection(c) ==
    /\ last.raised = ""
    /\ ncalls < MaxCalls
    /\ ncalls' = ncalls + 1
    /\ pre' = Snapshot
    /\ UNCHANGED <<rawBBox, config, edge>>
    /\ LET r == _computeEdgeSize(rawBBox, c.bbox)
           v == InteriorBBox(rawBBox, r.value)
           call == Invocation("biasCorrection", v, c, "", 0)
       IN  IF r.raised # ""
           THEN /\ last' = Outcome("biasCorrection", getDimensions(c.bbox), r.value, r)
                /\ UNCHANGED <<image, mask, calls>>
           ELSE IF ~Contains(rawBBox, v)
           THEN /\ last' = Outcome("biasCorrection", getDimensions(c.bbox), r.value,
                                Raised("LengthError", ""))
                /\ UNCHANGED <<image, mask, calls>>
           ELSE IF ~SameLocalBBox(v, c)
           THEN /\ last' = Outcome("biasCorrection", getDimensions(c.bbox), r.value,
                                Raised("RuntimeError", ""))
                /\ calls' = Append(calls, call)
                /\ UNCHANGED <<image, mask>>
           ELSE /\ image' = biasCorrectionImage(image, rawBBox, v, c)
                /\ mask' = setEdgeBits(correctionMask(mask, rawBBox, v, c),
                                       rawBBox, GoodBBox(rawBBox, v),
                                       getPlaneBitMask("EDGE"))
                /\ calls' = Append(calls, call)
                /\ last' = Outcome("biasCorrection", getDimensions(c.bbox), r.value, r)

\* DecamCpIsrTask.flatCorrection(exposure, flatExposure)
FlatCorrection(c) ==
    /\ last.raised = ""
    /\ ncalls < MaxCalls
    /\ ncalls' = ncalls + 1
    /\ pre' = Snapshot
    /\ UNCHANGED <<rawBBox, config, edge>>
    /\ LET r == _computeEdgeSize(rawBBox, c.bbox)
           v == InteriorBBox(rawBBox, r.value)
           a == FlatArgs(config)
           call == Invocation("flatCorrection", v, c, a.scalingType, a.userScale)
       IN  IF r.raised # ""
           THEN /\ last' = Outcome("flatCorrection", getDimensions(c.bbox), r.value, r)
                /\ UNCHANGED <<image, mask, calls>>
           ELSE IF ~Contains(rawBBox, v)
           THEN /\ last' = Outcome("flatCorrection", getDimensions(c.bbox), r.value,
                                Raised("LengthError", ""))
                /\ UNCHANGED <<image, mask, calls>>
           ELSE IF ~SameLocalBBox(v, c)
           THEN /\ last' = Outcome("flatCorrection", getDimensions(c.bbox), r.value,
                                Raised("RuntimeError", ""))
                /\ calls' = Append(calls, call)
                /\ UNCHANGED <<image, mask>>
           ELSE /\ image' = flatCorrectionImage(image, rawBBox, v, c,
                                                a.scalingType, a.userScale)
                /\ mask' = setEdgeBits(correctionMask(mask, rawBBox, v, c),
                                       rawBBox, GoodBBox(rawBBox, v),
                                       getPlaneBitMask("EDGE"))
                /\ calls' = Append(calls, call)
                /\ last' = Outcome("flatCorrection", getDimensions(c.bbox), r.value, r)

Next ==
    \/ SetDefaults
    \/ OverrideProducts
    \/ \E c \in CalibExposures : BiasCorrection(c)
    \/ \E c \in CalibExposures : FlatCorrection(c)

Spec == Init /\ [][Next]_vars

\* the edge-trim computation on its own, over every pair of bounding boxes
NextEdge == \E c \in CalibExposures : ComputeEdgeSize(c)

SpecEdge == Init /\ [][NextEdge]_vars

TypeOK ==
    /\ rawBBox \in RawBBoxes
    /\ DOMAIN image = Pixels(rawBBox)
    /\ DOMAIN mask = Pixels(rawBBox)
    /\ \A p \in Pixels(rawBBox) : mask[p] \subseteq Planes
    /\ ncalls \in 0..MaxCalls
    /\ Len(calls) <= ncalls

(* ------------------------------ properties ---------------------------- *)

Corrections == {"biasCorrection", "flatCorrection"}

\* the differences in extent between the raw exposure and the calibration
\* exposure of the most recent correction call
LastNx == rawBBox.w - last.calib[1]

LastNy == rawBBox.h - last.calib[2]

\* that call's geometry is acceptable, and its trim
LastWellFormed == LastNx = LastNy /\ LastNx % 2 = 0 /\ LastNx >= 0

LastTrim == LastNx \div 2

\* the calibration exposure of the most recent correction call
LastCalib == [bbox |-> Box(0, 0, last.calib[1], last.calib[2])]

\* pixel p lies in [k:-k, k:-k]
Interior(p, k) ==
    /\ k <= p[1] /\ p[1] < rawBBox.w - k
    /\ k <= p[2] /\ p[2] < rawBBox.h - k

\* distance of pixel p from the nearest edge of the raw exposure
Min(a, b) == IF a <= b THEN a ELSE b

EdgeDistance(p) ==
    Min(Min(p[1], rawBBox.w - 1 - p[1]), Min(p[2], rawBBox.h - 1 - p[2]))

WithTerm(pix, t) == [pix EXCEPT !.ops = Append(@, t)]

\* the trim of a logged invocation, read off the view it was given
TrimOf(e) == e.region.x0 - rawBBox.x0

\* C1: for a raw image of size (W,H) and a calibration image of size
\* (W-2k, H-2k), k >= 0, _computeEdgeSize returns exactly k, wherever the two
\* bounding boxes are positioned.
C1_EdgeSizeIsHalfTheDifference ==
    edge.called =>
        \A k \in 0..MaxDim :
            (/\ edge.calib.w = edge.raw.w - 2 * k
             /\ edge.calib.h = edge.raw.h - 2 * k)
            => edge.result = Returned(k)

C1_Witness ==
    /\ edge.called
    /\ edge.calib.w = edge.raw.w - 2 /\ edge.calib.h = edge.raw.h - 2
    /\ edge.calib.w > 0
    /\ <<edge.calib.x0, edge.calib.y0>> # <<edge.raw.x0, edge.raw.y0>>
    /\ edge.result.value = 1

\* C2: _computeEdgeSize returns a value exactly when the X and Y extent
\* differences are equal, even and non-negative; in every other case it
\* raises an assertion error.
C2_RaisesUnlessUniformEvenNonNegative ==
    edge.called =>
        LET nx == edge.raw.w - edge.calib.w
            ny == edge.raw.h - edge.calib.h
        IN  IF nx = ny /\ nx % 2 = 0 /\ nx >= 0
            THEN edge.result.raised = ""
            ELSE edge.result.raised = "AssertionError" /\ edge.result.value = -1

C2_Witness ==
    /\ edge.called
    /\ edge.raw.w - edge.calib.w = 2
    /\ edge.raw.h - edge.calib.h = 0
    /\ edge.result.raised = "AssertionError"

\* C3: after biasCorrection with trim k > 0 the pixels of [k:-k, k:-k] hold
\* the values the bias routine produced, every pixel within k of an edge has
\* the EDGE bit set, and no mask bit that was set before the call is cleared.
C3_BiasCorrectionWithTrim ==
    (last.op = "biasCorrection" /\ LastWellFormed /\ LastTrim > 0) =>
        /\ last.raised = ""
        /\ \A p \in Pixels(rawBBox) :
              /\ Interior(p, LastTrim) =>
                    image[p] = WithTerm(pre.image[p],
                                  BiasTerm(LastCalib, <<p[1] - LastTrim, p[2] - LastTrim>>))
              /\ EdgeDistance(p) < LastTrim => "EDGE" \in mask[p]
              /\ pre.mask[p] \subseteq mask[p]

C3_Witness ==
    /\ last.op = "biasCorrection" /\ last.raised = "" /\ LastTrim > 0
    /\ \E p \in Pixels(rawBBox) : Interior(p, LastTrim) /\ pre.mask[p] # {}
    /\ \E p \in Pixels(rawBBox) :
          EdgeDistance(p) < LastTrim /\ "EDGE" \notin pre.mask[p] /\ pre.mask[p] # {}

\* C4 as stated: after flatCorrection with trim 0 every pixel's EDGE bit
\* equals its EDGE bit before the call.
C4_EdgeBitsAsBefore ==
    (last.op = "flatCorrection" /\ LastWellFormed /\ LastTrim = 0) =>
        \A p \in Pixels(rawBBox) : ("EDGE" \in mask[p]) <=> ("EDGE" \in pre.mask[p])

\* C4: after flatCorrection with trim 0 the entire image is corrected and
\* the border marking adds no EDGE bit: a pixel's EDGE bit is set afterwards
\* exactly if it was set before or is set in the flat's mask at that pixel.
C4_FlatCorrectionWithoutTrim ==
    (last.op = "flatCorrection" /\ LastWellFormed /\ LastTrim = 0) =>
        /\ last.raised = ""
        /\ \A p \in Pixels(rawBBox) :
              /\ image[p] = WithTerm(pre.image[p],
                               FlatTerm(LastCalib, p, config.flatScalingType,
                                        config.flatUserScale))
              /\ ("EDGE" \in mask[p]) <=>
                    ("EDGE" \in pre.mask[p] \/ "EDGE" \in CalibMaskAt(LastCalib, p))

C4_Witness ==
    /\ last.op = "flatCorrection" /\ last.raised = "" /\ LastTrim = 0
    /\ \E p \in Pixels(rawBBox) : "EDGE" \notin mask[p]
    /\ \E p \in Pixels(rawBBox) : EdgeDistance(p) = 0 /\ "EDGE" \notin mask[p]

\* C5: when the geometry is malformed, biasCorrection and flatCorrection
\* raise before changing anything: image and mask are as before, the
\* correction routine was not invoked.  A call either corrects the whole
\* interior region or changes nothing.
C5_MalformedGeometryChangesNothing ==
    last.op \in Corrections =>
        /\ ~LastWellFormed =>
              /\ last.raised = "AssertionError"
              /\ image = pre.image /\ mask = pre.mask /\ calls = pre.calls
        /\ \/ image = pre.image /\ mask = pre.mask
           \/ \A p \in Pixels(rawBBox) :
                 Interior(p, LastTrim) => Len(image[p].ops) = Len(pre.image[p].ops) + 1

C5_Witness ==
    /\ last.op \in Corrections /\ ~LastWellFormed
    /\ ncalls = 2 /\ Len(calls) = 1
    /\ last.raised = "AssertionError"

\* C6: for both corrections and any accepted trim, a pixel outside the
\* interior region keeps its image value, and its mask changes only by the
\* EDGE bit being OR-ed in.
C6_BorderPixelsOnlyGainEdge ==
    (last.op \in Corrections /\ LastWellFormed) =>
        \A p \in Pixels(rawBBox) :
            ~Interior(p, LastTrim) =>
                /\ image[p] = pre.image[p]
                /\ mask[p] = pre.mask[p] \cup {"EDGE"}

C6_Witness ==
    /\ last.op = "flatCorrection" /\ last.raised = "" /\ LastTrim > 0
    /\ Len(calls) = 2
    /\ \E p \in Pixels(rawBBox) :
          ~Interior(p, LastTrim) /\ "EDGE" \notin pre.mask[p] /\ image[p].ops # <<>>

\* C7: flatCorrection with trim k > 0 invokes the flat-field routine exactly
\* once, on [k:-k, k:-k] of the raw exposure paired with the flat's masked
\* image, with the configuration's flatScalingType and flatUserScale;
\* afterwards the k-pixel border is flagged EDGE.
C7_FlatCorrectionInvocation ==
    (last.op = "flatCorrection" /\ LastWellFormed /\ LastTrim > 0) =>
        /\ calls = Append(pre.calls,
              [routine |-> "flatCorrection",
               region |-> Box(rawBBox.x0 + LastTrim, rawBBox.y0 + LastTrim,
                              rawBBox.w - 2 * LastTrim, rawBBox.h - 2 * LastTrim),
               calib |-> last.calib,
               scalingType |-> config.flatScalingType,
               userScale |-> config.flatUserScale])
        /\ \A p \in Pixels(rawBBox) :
              /\ Interior(p, LastTrim) =>
                    image[p] = WithTerm(pre.image[p],
                                  FlatTerm(LastCalib, <<p[1] - LastTrim, p[2] - LastTrim>>,
                                           config.flatScalingType, config.flatUserScale))
              /\ ~Interior(p, LastTrim) => "EDGE" \in mask[p]

C7_Witness ==
    /\ last.op = "flatCorrection" /\ last.raised = "" /\ LastTrim > 0
    /\ config.flatScalingType = "MEAN" /\ config.flatUserScale = 2
    /\ \E p \in Pixels(rawBBox) : Interior(p, LastTrim)

\* C8: after setDefaults, and in a task built with the default configuration
\* of its ConfigClass, biasDataProductName is "cpBias" and
\* flatDataProductName is "cpFlat".
C8_DefaultsNameCpProducts ==
    /\ ConfigClass = "DecamCpIsrConfig"
    /\ last.op \in {"__init__", "setDefaults"} =>
          /\ config.biasDataProductName = "cpBias"
          /\ config.flatDataProductName = "cpFlat"

C8_Witness ==
    /\ last.op = "setDefaults"
    /\ config.biasDataProductName = "cpBias"
    /\ config.biasDataProductName # LsstProductNames.biasDataProductName

\* C9: whenever a correction routine is invoked, the view it is given has
\* exactly the calibration exposure's width and height and lies in the raw
\* exposure with the same margin k on all four sides, also for k = 0 and
\* when the raw width or height equals 2k.
C9_ViewMatchesCalibrationAndIsCentred ==
    \A i \in 1..Len(calls) :
        LET e == calls[i]
            k == (rawBBox.w - e.calib[1]) \div 2
        IN  /\ getDimensions(e.region) = e.calib
            /\ e.region.x0 - rawBBox.x0 = k
            /\ e.region.y0 - rawBBox.y0 = k
            /\ (rawBBox.x0 + rawBBox.w) - (e.region.x0 + e.region.w) = k
            /\ (rawBBox.y0 + rawBBox.h) - (e.region.y0 + e.region.h) = k

C9_Witness ==
    /\ Len(calls) = 2
    /\ TrimOf(calls[1]) = 0
    /\ TrimOf(calls[2]) > 0 /\ calls[2].region.w = 0 /\ calls[2].region.h > 0
    /\ last.raised = ""

\* C10: over any sequence of correction calls on one raw exposure the EDGE
\* bits only grow; afterwards every pixel within the largest trim of an edge
\* carries EDGE, and every pixel has received exactly the corrections whose
\* trim does not exceed its distance from the edge.
C10_EdgeGrowsOverCalls ==
    \A p \in Pixels(rawBBox) :
        /\ "EDGE" \in pre.mask[p] => "EDGE" \in mask[p]
        /\ "EDGE" \in RawMaskAt(p) => "EDGE" \in mask[p]
        /\ (\E i \in 1..Len(calls) : EdgeDistance(p) < TrimOf(calls[i]))
              => "EDGE" \in mask[p]
        /\ LET got == [j \in 1..Len(image[p].ops) |-> image[p].ops[j].routine]
               due == SelectSeq(calls, LAMBDA e : TrimOf(e) <= EdgeDistance(p))
           IN  got = [j \in 1..Len(due) |-> due[j].routine]

C10_Witness ==
    /\ Len(calls) = 2 /\ last.raised = ""
    /\ TrimOf(calls[1]) > TrimOf(calls[2])
    /\ \E p \in Pixels(rawBBox) :
          /\ TrimOf(calls[2]) <= EdgeDistance(p) /\ EdgeDistance(p) < TrimOf(calls[1])
          /\ Len(image[p].ops) = 1
          /\ "EDGE" \notin RawMaskAt(p) /\ "EDGE" \in mask[p]

====
